---- MODULE Spec2Model ----
(***************************************************************************)
(* Model of pkg/sentry/fs/ext4/disklayout/superblock.go: the three         *)
(* superblock feature words (compatible, incompatible, read-only           *)
(* compatible), their conversion to and from structs of booleans, and the  *)
(* superblock accessors that are derived from them.                        *)
(*                                                                         *)
(* A uint32 is modelled as the set of its set bit positions (a subset of   *)
(* 0..31): TLC's integers stop at 2^31-1, so a word with bit 31 set has no *)
(* integer to stand for it.  f & c is then the intersection, f | c the     *)
(* union and 0 the empty set.  The Sb* constants keep their numeric value  *)
(* and are turned into words by U32.                                       *)
(***************************************************************************)
EXTENDS Integers, Sequences, FiniteSets, TLC

VARIABLES
    pc,     \* where the caller stands
    kind,   \* codec: which feature word is converted
    n,      \* codec: the raw word (given, or encoded from s)
    s,      \* codec: the struct (given, or decoded from n)
    rn,     \* codec: the word encoded back from the decoded struct
    rs,     \* codec: the struct decoded back from the encoded word
    buf,    \* mount: the superblock buffer read from the volume
    sb,     \* mount: the decoded SuperBlock, if decoding succeeded
    err,    \* mount: the decode error, if decoding failed
    adm     \* mount: what admission decided

codecVars == <<kind, n, s, rn, rs>>

mountVars == <<buf, sb, err, adm>>

vars == <<pc, codecVars, mountVars>>

-----------------------------------------------------------------------------
(* Bounds of the model. *)

\* Raw words are drawn within this many bit flips of 0, of 0xFFFFFFFF and of
\* the word made of every named bit of the feature word.
MaxFlip == 2

\* The on-disk log2 fields (block size, cluster size) are drawn from 0..MaxLog.
MaxLog == 6

-----------------------------------------------------------------------------
(* uint32 as a bit vector. *)

WordBits == 0..31

Zero == {}

RECURSIVE BitsFrom(_, _)
BitsFrom(v, i) ==
    IF v = 0 THEN {}
    ELSE (IF v % 2 = 1 THEN {i} ELSE {}) \cup BitsFrom(v \div 2, i + 1)

\* The uint32 whose value is the number v.
U32(v) == BitsFrom(v, 0) \cap WordBits

\* a & b
And(a, b) == a \cap b

\* a | b
Or(a, b) == a \cup b

-----------------------------------------------------------------------------
(* Superblock compatible features. *)

SbDirPrealloc == 1
SbImagicInodes == 2
SbHasJournal == 4
SbExtAttr == 8
SbResizeInode == 16
SbDirIndex == 32
SbLazyBg == 64
SbExcludeInode == 128
SbExcludeBitmap == 256
SbSparseV2 == 512

(* Superblock incompatible features. *)

SbCompression == 1
SbDirentFileType == 2
SbRecovery == 4
SbJournalDev == 8
SbMetaBG == 16
SbExtents == 64
SbIs64Bit == 128
SbMMP == 256
SbFlexBg == 512
SbExtAttrInode == 1024
SbDirData == 4096
SbCsumSeed == 8192
SbLargeDir == 16384
SbInlineData == 32768
SbEncrypted == 65536

(* Superblock readonly compatible features. *)

SbSparse == 1
SbLargeFile == 2
SbBTreeDir == 4
SbHugeFile == 8
SbGdtCsum == 16
SbDirNlink == 32
SbExtraIsize == 64
SbHasSnapshot == 128
SbQuota == 256
SbBigalloc == 512
SbMetadataCsum == 1024
SbReplica == 2048
SbReadOnly == 4096
SbProject == 8192

-----------------------------------------------------------------------------
(* The structs of booleans: the field names of each, in declaration order. *)

CompatFields ==
    <<"DirPrealloc", "ImagicInodes", "HasJournal", "ExtAttr", "ResizeInode",
      "DirIndex", "LazyBg", "ExcludeInode", "ExcludeBitmap", "SparseV2">>

IncompatFields ==
    <<"Compression", "DirentFileType", "Recovery", "JournalDev", "MetaBG",
      "Extents", "Is64Bit", "MMP", "FlexBg", "ExtAttrInode", "DirData",
      "CsumSeed", "LargeDir", "InlineData", "Encrypted">>

RoCompatFields ==
    <<"Sparse", "LargeFile", "BTreeDir", "HugeFile", "GdtCsum", "DirNlink",
      "ExtraIsize", "HasSnapshot", "Quota", "Bigalloc", "MetadataCsum",
      "Replica", "ReadOnly", "Project">>

Range(q) == {q[i] : i \in 1..Len(q)}

\* var res uint32; then one "if f.X { res |= SbX }" per element of flags,
\* each element being the word SbX when f.X holds and 0 when it does not.
RECURSIVE OrInto(_, _)
OrInto(res, flags) ==
    IF flags = <<>> THEN res
    ELSE OrInto(Or(res, Head(flags)), Tail(flags))

\* if c { res |= bit }: what the statement ORs into res.
Flag(c, bit) == IF c THEN U32(bit) ELSE Zero

\* CompatFeatures.ToInt with SparseV2 ORing in the bit of ExcludeBitmap.
MutCompatFeaturesToInt(f) ==
    OrInto(Zero, <<
        Flag(f.DirPrealloc, SbDirPrealloc),
        Flag(f.ImagicInodes, SbImagicInodes),
        Flag(f.HasJournal, SbHasJournal),
        Flag(f.ExtAttr, SbExtAttr),
        Flag(f.ResizeInode, SbResizeInode),
        Flag(f.DirIndex, SbDirIndex),
        Flag(f.LazyBg, SbLazyBg),
        Flag(f.ExcludeInode, SbExcludeInode),
        Flag(f.ExcludeBitmap, SbExcludeBitmap),
        Flag(f.SparseV2, SbExcludeBitmap) >>)

CompatFeaturesToInt(f) ==
    OrInto(Zero, <<
        Flag(f.DirPrealloc, SbDirPrealloc),
        Flag(f.ImagicInodes, SbImagicInodes),
        Flag(f.HasJournal, SbHasJournal),
        Flag(f.ExtAttr, SbExtAttr),
        Flag(f.ResizeInode, SbResizeInode),
        Flag(f.DirIndex, SbDirIndex),
        Flag(f.LazyBg, SbLazyBg),
        Flag(f.ExcludeInode, SbExcludeInode),
        Flag(f.ExcludeBitmap, SbExcludeBitmap),
        Flag(f.SparseV2, SbSparseV2) >>)

CompatFeaturesFromInt(f) ==
    [ DirPrealloc   |-> And(f, U32(SbDirPrealloc)) # Zero,
      ImagicInodes  |-> And(f, U32(SbImagicInodes)) # Zero,
      HasJournal    |-> And(f, U32(SbHasJournal)) # Zero,
      ExtAttr       |-> And(f, U32(SbExtAttr)) # Zero,
      ResizeInode   |-> And(f, U32(SbResizeInode)) # Zero,
      DirIndex      |-> And(f, U32(SbDirIndex)) # Zero,
      LazyBg        |-> And(f, U32(SbLazyBg)) # Zero,
      ExcludeInode  |-> And(f, U32(SbExcludeInode)) # Zero,
      ExcludeBitmap |-> And(f, U32(SbExcludeBitmap)) # Zero,
      SparseV2      |-> And(f, U32(SbSparseV2)) # Zero ]

IncompatFeaturesToInt(f) ==
    OrInto(Zero, <<
        Flag(f.Compression, SbCompression),
        Flag(f.DirentFileType, SbDirentFileType),
        Flag(f.Recovery, SbRecovery),
        Flag(f.JournalDev, SbJournalDev),
        Flag(f.MetaBG, SbMetaBG),
        Flag(f.Extents, SbExtents),
        Flag(f.Is64Bit, SbIs64Bit),
        Flag(f.MMP, SbMMP),
        Flag(f.FlexBg, SbFlexBg),
        Flag(f.ExtAttrInode, SbExtAttrInode),
        Flag(f.DirData, SbDirData),
        Flag(f.CsumSeed, SbCsumSeed),
        Flag(f.LargeDir, SbLargeDir),
        Flag(f.InlineData, SbInlineData),
        Flag(f.Encrypted, SbEncrypted) >>)

\* IncompatFeaturesFromInt with Is64Bit reading the bit of MMP.
MutIncompatFeaturesFromInt(f) ==
    [ Compression    |-> And(f, U32(SbCompression)) # Zero,
      DirentFileType |-> And(f, U32(SbDirentFileType)) # Zero,
      Recovery       |-> And(f, U32(SbRecovery)) # Zero,
      JournalDev     |-> And(f, U32(SbJournalDev)) # Zero,
      MetaBG         |-> And(f, U32(SbMetaBG)) # Zero,
      Extents        |-> And(f, U32(SbExtents)) # Zero,
      Is64Bit        |-> And(f, U32(SbMMP)) # Zero,
      MMP            |-> And(f, U32(SbMMP)) # Zero,
      FlexBg         |-> And(f, U32(SbFlexBg)) # Zero,
      ExtAttrInode   |-> And(f, U32(SbExtAttrInode)) # Zero,
      DirData        |-> And(f, U32(SbDirData)) # Zero,
      CsumSeed       |-> And(f, U32(SbCsumSeed)) # Zero,
      LargeDir       |-> And(f, U32(SbLargeDir)) # Zero,
      InlineData     |-> And(f, U32(SbInlineData)) # Zero,
      Encrypted      |-> And(f, U32(SbEncrypted)) # Zero ]

IncompatFeaturesFromInt(f) ==
    [ Compression    |-> And(f, U32(SbCompression)) # Zero,
      DirentFileType |-> And(f, U32(SbDirentFileType)) # Zero,
      Recovery       |-> And(f, U32(SbRecovery)) # Zero,
      JournalDev     |-> And(f, U32(SbJournalDev)) # Zero,
      MetaBG         |-> And(f, U32(SbMetaBG)) # Zero,
      Extents        |-> And(f, U32(SbExtents)) # Zero,
      Is64Bit        |-> And(f, U32(SbIs64Bit)) # Zero,
      MMP            |-> And(f, U32(SbMMP)) # Zero,
      FlexBg         |-> And(f, U32(SbFlexBg)) # Zero,
      ExtAttrInode   |-> And(f, U32(SbExtAttrInode)) # Zero,
      DirData        |-> And(f, U32(SbDirData)) # Zero,
      CsumSeed       |-> And(f, U32(SbCsumSeed)) # Zero,
      LargeDir       |-> And(f, U32(SbLargeDir)) # Zero,
      InlineData     |-> And(f, U32(SbInlineData)) # Zero,
      Encrypted      |-> And(f, U32(SbEncrypted)) # Zero ]

\* RoCompatFeatures.ToInt with Project ORing in the bit of ReadOnly.
MutRoCompatFeaturesToInt(f) ==
    OrInto(Zero, <<
        Flag(f.Sparse, SbSparse),
        Flag(f.LargeFile, SbLargeFile),
        Flag(f.BTreeDir, SbBTreeDir),
        Flag(f.HugeFile, SbHugeFile),
        Flag(f.GdtCsum, SbGdtCsum),
        Flag(f.DirNlink, SbDirNlink),
        Flag(f.ExtraIsize, SbExtraIsize),
        Flag(f.HasSnapshot, SbHasSnapshot),
        Flag(f.Quota, SbQuota),
        Flag(f.Bigalloc, SbBigalloc),
        Flag(f.MetadataCsum, SbMetadataCsum),
        Flag(f.Replica, SbReplica),
        Flag(f.ReadOnly, SbReadOnly),
        Flag(f.Project, SbReadOnly) >>)

RoCompatFeaturesToInt(f) ==
    OrInto(Zero, <<
        Flag(f.Sparse, SbSparse),
        Flag(f.LargeFile, SbLargeFile),
        Flag(f.BTreeDir, SbBTreeDir),
        Flag(f.HugeFile, SbHugeFile),
        Flag(f.GdtCsum, SbGdtCsum),
        Flag(f.DirNlink, SbDirNlink),
        Flag(f.ExtraIsize, SbExtraIsize),
        Flag(f.HasSnapshot, SbHasSnapshot),
        Flag(f.Quota, SbQuota),
        Flag(f.Bigalloc, SbBigalloc),
        Flag(f.MetadataCsum, SbMetadataCsum),
        Flag(f.Replica, SbReplica),
        Flag(f.ReadOnly, SbReadOnly),
        Flag(f.Project, SbProject) >>)

\* RoCompatFeaturesFromInt with Bigalloc reading the bit of MetadataCsum.
MutRoCompatFeaturesFromInt(f) ==
    [ Sparse       |-> And(f, U32(SbSparse)) # Zero,
      LargeFile    |-> And(f, U32(SbLargeFile)) # Zero,
      BTreeDir     |-> And(f, U32(SbBTreeDir)) # Zero,
      HugeFile     |-> And(f, U32(SbHugeFile)) # Zero,
      GdtCsum      |-> And(f, U32(SbGdtCsum)) # Zero,
      DirNlink     |-> And(f, U32(SbDirNlink)) # Zero,
      ExtraIsize   |-> And(f, U32(SbExtraIsize)) # Zero,
      HasSnapshot  |-> And(f, U32(SbHasSnapshot)) # Zero,
      Quota        |-> And(f, U32(SbQuota)) # Zero,
      Bigalloc     |-> And(f, U32(SbMetadataCsum)) # Zero,
      MetadataCsum |-> And(f, U32(SbMetadataCsum)) # Zero,
      Replica      |-> And(f, U32(SbReplica)) # Zero,
      ReadOnly     |-> And(f, U32(SbReadOnly)) # Zero,
      Project      |-> And(f, U32(SbProject)) # Zero ]

RoCompatFeaturesFromInt(f) ==
    [ Sparse       |-> And(f, U32(SbSparse)) # Zero,
      LargeFile    |-> And(f, U32(SbLargeFile)) # Zero,
      BTreeDir     |-> And(f, U32(SbBTreeDir)) # Zero,
      HugeFile     |-> And(f, U32(SbHugeFile)) # Zero,
      GdtCsum      |-> And(f, U32(SbGdtCsum)) # Zero,
      DirNlink     |-> And(f, U32(SbDirNlink)) # Zero,
      ExtraIsize   |-> And(f, U32(SbExtraIsize)) # Zero,
      HasSnapshot  |-> And(f, U32(SbHasSnapshot)) # Zero,
      Quota        |-> And(f, U32(SbQuota)) # Zero,
      Bigalloc     |-> And(f, U32(SbBigalloc)) # Zero,
      MetadataCsum |-> And(f, U32(SbMetadataCsum)) # Zero,
      Replica      |-> And(f, U32(SbReplica)) # Zero,
      ReadOnly     |-> And(f, U32(SbReadOnly)) # Zero,
      Project      |-> And(f, U32(SbProject)) # Zero ]

-----------------------------------------------------------------------------
(* The callers of the codec: which of the three feature words is handled. *)

Kinds == {"compat", "incompat", "rocompat"}

FieldsOf(k) ==
    CASE k = "compat" -> Range(CompatFields)
      [] k = "incompat" -> Range(IncompatFields)
      [] k = "rocompat" -> Range(RoCompatFields)

ToInt(k, f) ==
    CASE k = "compat" -> CompatFeaturesToInt(f)
      [] k = "incompat" -> IncompatFeaturesToInt(f)
      [] k = "rocompat" -> RoCompatFeaturesToInt(f)

FromInt(k, f) ==
    CASE k = "compat" -> CompatFeaturesFromInt(f)
      [] k = "incompat" -> IncompatFeaturesFromInt(f)
      [] k = "rocompat" -> RoCompatFeaturesFromInt(f)

-----------------------------------------------------------------------------
(* Inputs. *)

\* The words that differ from w in at most k bits.
RECURSIVE Near(_, _)
Near(w, k) ==
    IF k = 0 THEN {w}
    ELSE LET prev == Near(w, k - 1)
         IN  prev \cup {(x \ {b}) \cup ({b} \ x) : x \in prev, b \in WordBits}

\* Every named bit of the feature word k, as one word.
NamedBits(k) ==
    CASE k = "compat" ->
           U32(SbDirPrealloc + SbImagicInodes + SbHasJournal + SbExtAttr
               + SbResizeInode + SbDirIndex + SbLazyBg + SbExcludeInode
               + SbExcludeBitmap + SbSparseV2)
      [] k = "incompat" ->
           U32(SbCompression + SbDirentFileType + SbRecovery + SbJournalDev
               + SbMetaBG + SbExtents + SbIs64Bit + SbMMP + SbFlexBg
               + SbExtAttrInode + SbDirData + SbCsumSeed + SbLargeDir
               + SbInlineData + SbEncrypted)
      [] k = "rocompat" ->
           U32(SbSparse + SbLargeFile + SbBTreeDir + SbHugeFile + SbGdtCsum
               + SbDirNlink + SbExtraIsize + SbHasSnapshot + SbQuota
               + SbBigalloc + SbMetadataCsum + SbReplica + SbReadOnly
               + SbProject)

RawWords(k) ==
    Near(Zero, MaxFlip) \cup Near(WordBits, MaxFlip) \cup Near(NamedBits(k), MaxFlip)

\* Every value of the struct of kind k: every combination of its fields.
Structs(k) == [FieldsOf(k) -> BOOLEAN]

-----------------------------------------------------------------------------
(* The superblock behind the SuperBlock interface.  The interface and the  *)
(* feature codec are in superblock.go; the layout decoders and the mount   *)
(* admission are modelled from the design document (sections 4.2 to 4.5,   *)
(* 6 and 7).                                                               *)

\* Magic() "must be 0xef53".
SuperMagic == 61267

\* How much of the superblock region the buffer holds: less than the
\* Revision-0 fixed region, that region only, or the dynamic extension too.
LenClasses == {"short", "fixed", "dynamic"}

\* The span a layout decoder requires, against the length of the buffer.
LongEnough(len, rev) ==
    IF rev = 0 THEN len \in {"fixed", "dynamic"} ELSE len = "dynamic"

\* uint64(w) << 32, a uint64 being the set of its set bits among 0..63.
ShiftLeft32(w) == {b + 32 : b \in w}

RECURSIVE Pow2(_)
Pow2(k) == IF k = 0 THEN 1 ELSE 2 * Pow2(k - 1)

\* The block-size logs the decoder accepts: 1 KiB, 2 KiB, 4 KiB, 64 KiB.
ValidLogBlockSizes == {0, 1, 2, 6}

\* BlockSize(): 2^(10 + sb.s_log_block_size).
MutBlockSize(log) == Pow2(9 + log)

BlockSize(log) == Pow2(10 + log)

\* ClusterSize(): (2^sb.s_log_cluster_size) * BlockSize() if bigalloc is
\* enabled, BlockSize() otherwise.
ClusterSize(bigalloc, logCluster, blockSize) ==
    IF bigalloc THEN Pow2(logCluster) * blockSize ELSE blockSize

\* ClustersPerGroup(): the number of clusters per group if bigalloc is
\* enabled, BlocksPerGroup() otherwise.
ClustersPerGroup(bigalloc, rawClustersPerGroup, blocksPerGroup) ==
    IF bigalloc THEN rawClustersPerGroup ELSE blocksPerGroup

\* BlocksCount() and FreeBlocksCount(): (uint64(high) << 32) | uint64(low)
\* when the 64-bit feature is set, else uint64(low).
Count64(is64, high, low) ==
    IF is64 THEN Or(ShiftLeft32(high), low) ELSE low

NoSb == [x \in {} |-> FALSE]

Failed(kindOfError) == [sb |-> NoSb, err |-> kindOfError]

\* What the layout decoder selected by b.rev yields once the buffer is long
\* enough and carries the magic: the feature words are unpacked (all-false
\* in Revision 0, which has none), the geometry is derived and checked.
DecodeFields(b) ==
    LET dyn      == b.rev # 0
        compat   == CompatFeaturesFromInt(IF dyn THEN b.feature_compat ELSE Zero)
        incompat == IncompatFeaturesFromInt(IF dyn THEN b.feature_incompat ELSE Zero)
        rocompat == RoCompatFeaturesFromInt(IF dyn THEN b.feature_ro_compat ELSE Zero)
    IN  IF b.log_block_size \notin ValidLogBlockSizes
        THEN Failed("InconsistentGeometry")
        ELSE IF ~rocompat.Bigalloc /\ b.log_cluster_size # b.log_block_size
        THEN Failed("InconsistentGeometry")
        ELSE [ sb |->
                 [ Magic                      |-> b.magic,
                   BlocksCount                |-> Count64(incompat.Is64Bit,
                                                          b.blocks_count_hi,
                                                          b.blocks_count_lo),
                   FreeBlocksCount            |-> Count64(incompat.Is64Bit,
                                                          b.free_blocks_count_hi,
                                                          b.free_blocks_count_lo),
                   BlockSize                  |-> BlockSize(b.log_block_size),
                   BlocksPerGroup             |-> b.blocks_per_group,
                   ClusterSize                |-> ClusterSize(rocompat.Bigalloc,
                                                              b.log_cluster_size,
                                                              BlockSize(b.log_block_size)),
                   ClustersPerGroup           |-> ClustersPerGroup(rocompat.Bigalloc,
                                                                   b.clusters_per_group,
                                                                   b.blocks_per_group),
                   CompatibleFeatures         |-> compat,
                   IncompatibleFeatures       |-> incompat,
                   ReadOnlyCompatibleFeatures |-> rocompat ],
               err |-> "none" ]

\* Decoding with the geometry checked before the magic.
MutDecode(b) ==
    IF ~LongEnough(b.len, b.rev) THEN Failed("BufferTooSmall")
    ELSE IF DecodeFields(b).err # "none" THEN DecodeFields(b)
    ELSE IF b.magic # SuperMagic THEN Failed("BadMagic")
    ELSE DecodeFields(b)

\* One decode attempt: the size of the buffer, then the magic, then the
\* fields.  It yields a SuperBlock or an error, never both.
Decode(b) ==
    IF ~LongEnough(b.len, b.rev) THEN Failed("BufferTooSmall")
    ELSE IF b.magic # SuperMagic THEN Failed("BadMagic")
    ELSE DecodeFields(b)

\* The features an implementation understands.  The design fixes the set per
\* implementation without listing it: one that understands every named
\* feature, and one that lacks compression and quota.
Implementations ==
    { [ inc |-> Range(IncompatFields), ro |-> Range(RoCompatFields) ],
      [ inc |-> Range(IncompatFields) \ {"Compression"},
        ro  |-> Range(RoCompatFields) \ {"Quota"} ] }

Modes == {"ro", "rw"}

\* The admission policy, on the decoded IncompatFeatures and
\* RoCompatFeatures: refuse mount, force read-only, or mount permitted in
\* the mode requested.  unsupported carries the offending features.
Admission(impl, incompat, rocompat, requested) ==
    LET badInc == {f \in Range(IncompatFields) : incompat[f] /\ f \notin impl.inc}
        badRo  == {f \in Range(RoCompatFields) : rocompat[f] /\ f \notin impl.ro}
    IN  IF badInc # {}
        THEN [ result |-> "refuse", mode |-> "none", unsupported |-> badInc ]
        ELSE IF badRo # {}
        THEN [ result |-> "force_ro", mode |-> "ro", unsupported |-> badRo ]
        ELSE [ result |-> "permitted", mode |-> requested, unsupported |-> {} ]

-----------------------------------------------------------------------------
(* Superblock buffers. *)

Magics == {SuperMagic, 0}

IncompatWords ==
    { U32(0), U32(64), U32(65), U32(64 + 128), U32(64 + 536870912),
      Or(U32(128), {31}) }

RoCompatWords ==
    { U32(0), U32(16), U32(16 + 256), U32(16 + 512), U32(16 + 16384),
      Or(U32(512), {31}) }

\* The fields of the Revision-0 fixed region that the accessors read.
FixedRegions ==
    [ magic                : Magics,
      log_block_size       : 0..MaxLog,
      log_cluster_size     : 0..MaxLog,
      blocks_per_group     : {8192, 32768},
      clusters_per_group   : {2048, 32768},
      blocks_count_lo      : {U32(1048581)},
      free_blocks_count_lo : {U32(4097)} ]

\* The fields of the dynamic extension that the accessors read.
DynamicRegions ==
    [ feature_compat       : {U32(60)},
      feature_incompat     : IncompatWords,
      feature_ro_compat    : RoCompatWords,
      blocks_count_hi      : {Zero, U32(3)},
      free_blocks_count_hi : {Zero, U32(1)} ]

\* A Revision-0 superblock has no dynamic extension.
NoDynamicRegion ==
    [ feature_compat       |-> Zero,
      feature_incompat     |-> Zero,
      feature_ro_compat    |-> Zero,
      blocks_count_hi      |-> Zero,
      free_blocks_count_hi |-> Zero ]

\* The buffer of length class l holding revision rev, fixed region f and
\* dynamic extension d.
Buffer(l, rev, f, d) ==
    [ len                  |-> l,
      rev                  |-> rev,
      magic                |-> f.magic,
      log_block_size       |-> f.log_block_size,
      log_cluster_size     |-> f.log_cluster_size,
      blocks_per_group     |-> f.blocks_per_group,
      clusters_per_group   |-> f.clusters_per_group,
      blocks_count_lo      |-> f.blocks_count_lo,
      free_blocks_count_lo |-> f.free_blocks_count_lo,
      feature_compat       |-> d.feature_compat,
      feature_incompat     |-> d.feature_incompat,
      feature_ro_compat    |-> d.feature_ro_compat,
      blocks_count_hi      |-> d.blocks_count_hi,
      free_blocks_count_hi |-> d.free_blocks_count_hi ]

Revisions == {0, 1}

DynamicRegionsOf(rev) == IF rev = 0 THEN {NoDynamicRegion} ELSE DynamicRegions

NoBuf == [x \in {} |-> FALSE]

NoAdm == [result |-> "none", mode |-> "none", unsupported |-> {}]

NoStruct == [x \in {} |-> FALSE]

NoMount ==
    /\ buf = NoBuf
    /\ sb = NoSb
    /\ err = "none"
    /\ adm = NoAdm

NoCodec ==
    /\ kind = "none"
    /\ n = Zero
    /\ s = NoStruct
    /\ rn = Zero
    /\ rs = NoStruct

-----------------------------------------------------------------------------
(* One mount attempt: the buffer is decoded, then admission decides. *)

MountInit ==
    /\ pc = "buf"
    /\ \E l \in LenClasses, rev \in Revisions, f \in FixedRegions :
         \E d \in DynamicRegionsOf(rev) : buf = Buffer(l, rev, f, d)
    /\ sb = NoSb
    /\ err = "none"
    /\ adm = NoAdm
    /\ NoCodec

DecodeSuperBlock ==
    /\ pc = "buf"
    /\ LET r == Decode(buf)
       IN  /\ sb' = r.sb
           /\ err' = r.err
           /\ pc' = IF r.err = "none" THEN "decoded" ELSE "failed"
    /\ UNCHANGED <<buf, adm>>
    /\ UNCHANGED codecVars

Admit ==
    /\ pc = "decoded"
    /\ \E impl \in Implementations, requested \in Modes :
         adm' = Admission(impl, sb.IncompatibleFeatures,
                          sb.ReadOnlyCompatibleFeatures, requested)
                @@ [impl |-> impl, requested |-> requested]
    /\ pc' = "admitted"
    /\ UNCHANGED <<buf, sb, err>>
    /\ UNCHANGED codecVars

MountNext == DecodeSuperBlock \/ Admit

SpecMount == MountInit /\ [][MountNext]_vars

-----------------------------------------------------------------------------
(* The codec, driven in both directions. *)

\* A caller holds a raw word, or a struct.
InitInt ==
    /\ pc = "int"
    /\ kind \in Kinds
    /\ n \in RawWords(kind)
    /\ s = NoStruct
    /\ rn = Zero
    /\ rs = NoStruct
    /\ NoMount

InitSet ==
    /\ pc = "set"
    /\ kind \in Kinds
    /\ s \in Structs(kind)
    /\ n = Zero
    /\ rn = Zero
    /\ rs = NoStruct
    /\ NoMount

Init == InitInt \/ InitSet

\* s := XFromInt(n)
DecodeWord ==
    /\ pc = "int"
    /\ s' = FromInt(kind, n)
    /\ pc' = "int_dec"
    /\ UNCHANGED <<kind, n, rn, rs>>
    /\ UNCHANGED mountVars

\* rn := s.ToInt()
EncodeDecoded ==
    /\ pc = "int_dec"
    /\ rn' = ToInt(kind, s)
    /\ pc' = "int_done"
    /\ UNCHANGED <<kind, n, s, rs>>
    /\ UNCHANGED mountVars

\* n := s.ToInt()
EncodeStruct ==
    /\ pc = "set"
    /\ n' = ToInt(kind, s)
    /\ pc' = "set_enc"
    /\ UNCHANGED <<kind, s, rn, rs>>
    /\ UNCHANGED mountVars

\* rs := XFromInt(n)
DecodeEncoded ==
    /\ pc = "set_enc"
    /\ rs' = FromInt(kind, n)
    /\ pc' = "set_done"
    /\ UNCHANGED <<kind, n, s, rn>>
    /\ UNCHANGED mountVars

Next == DecodeWord \/ EncodeDecoded \/ EncodeStruct \/ DecodeEncoded

Spec == Init /\ [][Next]_vars

-----------------------------------------------------------------------------
(* The super block states, a 16-bit word. *)

SbUmounted == 1
SbError == 2
SbOrphanRecovery == 4

HalfWordBits == 0..15

\* The uint16 whose value is the number v.
U16(v) == BitsFrom(v, 0) \cap HalfWordBits

SbStateFields == <<"Umounted", "Error", "OrphanRecovery">>

\* if c { res |= bit }, res being a uint16.
Flag16(c, bit) == IF c THEN U16(bit) ELSE Zero

SbStateToInt(st) ==
    OrInto(Zero, <<
        Flag16(st.Umounted, SbUmounted),
        Flag16(st.Error, SbError),
        Flag16(st.OrphanRecovery, SbOrphanRecovery) >>)

\* SbStateFromInt with OrphanRecovery reading the bit of Error.
MutSbStateFromInt(state) ==
    [ Umounted       |-> And(state, U16(SbUmounted)) # Zero,
      Error          |-> And(state, U16(SbError)) # Zero,
      OrphanRecovery |-> And(state, U16(SbError)) # Zero ]

SbStateFromInt(state) ==
    [ Umounted       |-> And(state, U16(SbUmounted)) # Zero,
      Error          |-> And(state, U16(SbError)) # Zero,
      OrphanRecovery |-> And(state, U16(SbOrphanRecovery)) # Zero ]

\* Every 16-bit word, and every SbState value.
StateWords == SUBSET HalfWordBits

SbStates == [Range(SbStateFields) -> BOOLEAN]

\* A caller holds a raw state word, or an SbState.
StateInitInt ==
    /\ pc = "int"
    /\ kind = "state"
    /\ n \in StateWords
    /\ s = NoStruct
    /\ rn = Zero
    /\ rs = NoStruct
    /\ NoMount

StateInitSet ==
    /\ pc = "set"
    /\ kind = "state"
    /\ s \in SbStates
    /\ n = Zero
    /\ rn = Zero
    /\ rs = NoStruct
    /\ NoMount

StateInit == StateInitInt \/ StateInitSet

\* s := SbStateFromInt(n)
StateDecodeWord ==
    /\ pc = "int"
    /\ s' = SbStateFromInt(n)
    /\ pc' = "int_dec"
    /\ UNCHANGED <<kind, n, rn, rs>>
    /\ UNCHANGED mountVars

\* rn := s.ToInt()
StateEncodeDecoded ==
    /\ pc = "int_dec"
    /\ rn' = SbStateToInt(s)
    /\ pc' = "int_done"
    /\ UNCHANGED <<kind, n, s, rs>>
    /\ UNCHANGED mountVars

\* n := s.ToInt()
StateEncodeStruct ==
    /\ pc = "set"
    /\ n' = SbStateToInt(s)
    /\ pc' = "set_enc"
    /\ UNCHANGED <<kind, s, rn, rs>>
    /\ UNCHANGED mountVars

\* rs := SbStateFromInt(n)
StateDecodeEncoded ==
    /\ pc = "set_enc"
    /\ rs' = SbStateFromInt(n)
    /\ pc' = "set_done"
    /\ UNCHANGED <<kind, n, s, rn>>
    /\ UNCHANGED mountVars

StateNext ==
    StateDecodeWord \/ StateEncodeDecoded \/ StateEncodeStruct \/ StateDecodeEncoded

SpecState == StateInit /\ [][StateNext]_vars

-----------------------------------------------------------------------------
(* Properties. *)

\* The named bits of each feature word, as the numbers the documentation
\* gives: 0x3FF, 0x1F7DF and 0x3FFF.
KnownBitsMask(k) ==
    CASE k = "compat" -> U32(1023)
      [] k = "incompat" -> U32(128991)
      [] k = "rocompat" -> U32(16383)

\* The constant named after each field of the struct of kind k.
NamedBit(k) ==
    CASE k = "compat" ->
           [ DirPrealloc |-> SbDirPrealloc, ImagicInodes |-> SbImagicInodes,
             HasJournal |-> SbHasJournal, ExtAttr |-> SbExtAttr,
             ResizeInode |-> SbResizeInode, DirIndex |-> SbDirIndex,
             LazyBg |-> SbLazyBg, ExcludeInode |-> SbExcludeInode,
             ExcludeBitmap |-> SbExcludeBitmap, SparseV2 |-> SbSparseV2 ]
      [] k = "incompat" ->
           [ Compression |-> SbCompression, DirentFileType |-> SbDirentFileType,
             Recovery |-> SbRecovery, JournalDev |-> SbJournalDev,
             MetaBG |-> SbMetaBG, Extents |-> SbExtents, Is64Bit |-> SbIs64Bit,
             MMP |-> SbMMP, FlexBg |-> SbFlexBg, ExtAttrInode |-> SbExtAttrInode,
             DirData |-> SbDirData, CsumSeed |-> SbCsumSeed,
             LargeDir |-> SbLargeDir, InlineData |-> SbInlineData,
             Encrypted |-> SbEncrypted ]
      [] k = "rocompat" ->
           [ Sparse |-> SbSparse, LargeFile |-> SbLargeFile,
             BTreeDir |-> SbBTreeDir, HugeFile |-> SbHugeFile,
             GdtCsum |-> SbGdtCsum, DirNlink |-> SbDirNlink,
             ExtraIsize |-> SbExtraIsize, HasSnapshot |-> SbHasSnapshot,
             Quota |-> SbQuota, Bigalloc |-> SbBigalloc,
             MetadataCsum |-> SbMetadataCsum, Replica |-> SbReplica,
             ReadOnly |-> SbReadOnly, Project |-> SbProject ]

\* C1: for each of the three feature sets and every value s of its struct,
\* decoding the encoding of s gives s back: XFromInt(s.ToInt()) == s.
C1_RoundTrip == pc = "set_done" => rs = s

\* An incompatible set with Extents and Encrypted but not Is64Bit has been
\* encoded and decoded back.
C1_Witness ==
    /\ pc = "set_done"
    /\ kind = "incompat"
    /\ s.Extents /\ s.Encrypted /\ ~s.Is64Bit
    /\ n = U32(64 + 65536)
    /\ rs = s

\* C2: for every raw word n, encoding the decoded set gives n masked to the
\* named bits of the word (0x3FF, 0x1F7DF, 0x3FFF), and no bit outside the
\* named constants is set in the result.
C2_Masking ==
    pc = "int_done" =>
        /\ kind = "compat" => rn = And(n, U32(1023))
        /\ kind = "incompat" => rn = And(n, U32(128991))
        /\ kind = "rocompat" => rn = And(n, U32(16383))
        /\ rn \subseteq NamedBits(kind)

\* The incompatible word 0x40 | 0x20000000 came back as 0x40.
C2_Witness ==
    /\ pc = "int_done"
    /\ kind = "incompat"
    /\ n = U32(64 + 536870912)
    /\ rn = U32(64)

\* C3, as stated: the conversion is lossless both ways, toInt(fromInt(n)) == n
\* for any integer n and fromInt(toInt(x)) == x for any feature set x.
C3_Lossless ==
    /\ pc = "int_done" => rn = n
    /\ pc = "set_done" => rs = s

\* C3, amended: fromInt(toInt(x)) == x for any feature set x, and
\* toInt(fromInt(n)) == n for any integer n with no bit set outside the named
\* bits of its word.
C3_LosslessOnNamedBits ==
    /\ pc = "int_done" /\ n \subseteq KnownBitsMask(kind) => rn = n
    /\ pc = "set_done" => rs = s

\* A word of more than MaxFlip named bits, and no other, came back unchanged.
C3_Witness ==
    /\ pc = "int_done"
    /\ n \subseteq KnownBitsMask(kind)
    /\ Cardinality(n) > MaxFlip
    /\ rn = n

\* C10: every field of the decoded set is true exactly when its own named
\* bit is set in the raw word, whatever the other bits are, and ToInt is the
\* OR of exactly the bits of the true fields.
C10_FieldIffBit ==
    /\ pc = "int_dec" =>
        /\ \A f \in FieldsOf(kind) :
             s[f] = (And(n, U32(NamedBit(kind)[f])) # Zero)
        /\ kind = "incompat" =>
             /\ s.Extents = (And(n, U32(64)) # Zero)
             /\ s.Is64Bit = (And(n, U32(128)) # Zero)
        /\ kind = "rocompat" =>
             /\ s.GdtCsum = (And(n, U32(16)) # Zero)
             /\ s.Bigalloc = (And(n, U32(512)) # Zero)
        /\ kind = "compat" => s.SparseV2 = (And(n, U32(512)) # Zero)
    /\ pc = "set_enc" =>
        n = UNION {U32(NamedBit(kind)[f]) : f \in {g \in FieldsOf(kind) : s[g]}}

\* A read-only compatible word with the bigalloc bit, without the GdtCsum
\* bit and with bits that are not named has been decoded.
C10_Witness ==
    /\ pc = "int_dec"
    /\ kind = "rocompat"
    /\ s.Bigalloc /\ ~s.GdtCsum
    /\ ~(n \subseteq KnownBitsMask(kind))

\* C4: admission yields refuse mount for every buffer whose on-disk
\* incompatible word sets a bit outside the named ones, whatever the other
\* fields and the requested mode, and the error names the unknown bit.
C4_UnknownIncompatRefused ==
    pc = "admitted" /\ ~(buf.feature_incompat \subseteq KnownBitsMask("incompat"))
        => adm.result = "refuse" /\ adm.unsupported # {}

\* C5: for a buffer whose only unknown feature bit is in the read-only
\* compatible word, admission yields force read-only whatever mode was
\* requested, and every decoded field is that of the same buffer with the
\* unknown bit cleared.
C5_UnknownRoCompatForcesReadOnly ==
    ( /\ pc = "admitted"
      /\ buf.feature_incompat \subseteq KnownBitsMask("incompat")
      /\ ~(buf.feature_ro_compat \subseteq KnownBitsMask("rocompat")) )
        => /\ adm.result = "force_ro"
           /\ adm.mode = "ro"
           /\ sb = Decode([buf EXCEPT !.feature_ro_compat =
                               And(@, KnownBitsMask("rocompat"))]).sb

\* C6: with the 64-bit incompatible bit (0x80) unset, BlocksCount and
\* FreeBlocksCount are the low word whatever the high word holds; with it
\* set they are (high << 32) | low.
C6_CountReconciliation ==
    pc \in {"decoded", "admitted"} =>
        IF And(buf.feature_incompat, U32(128)) = Zero
        THEN /\ sb.BlocksCount = buf.blocks_count_lo
             /\ sb.FreeBlocksCount = buf.free_blocks_count_lo
        ELSE /\ sb.BlocksCount =
                  {b + 32 : b \in buf.blocks_count_hi} \cup buf.blocks_count_lo
             /\ sb.FreeBlocksCount =
                  {b + 32 : b \in buf.free_blocks_count_hi}
                      \cup buf.free_blocks_count_lo

\* A dynamic superblock without the 64-bit bit and with non-zero high words
\* has been decoded.
C6_Witness ==
    /\ pc = "decoded"
    /\ buf.rev = 1
    /\ And(buf.feature_incompat, U32(128)) = Zero
    /\ buf.blocks_count_hi # Zero
    /\ buf.free_blocks_count_hi # Zero
    /\ sb.BlocksCount = buf.blocks_count_lo

\* C7: for every decoded superblock whose bigalloc bit (0x200) is unset,
\* ClusterSize == BlockSize and ClustersPerGroup == BlocksPerGroup whatever
\* the on-disk cluster fields hold; with bigalloc set, ClusterSize is
\* 2^log_cluster_size * BlockSize and ClustersPerGroup is the on-disk value.
C7_ClusterGeometry ==
    pc \in {"decoded", "admitted"} =>
        IF And(buf.feature_ro_compat, U32(512)) = Zero
        THEN /\ sb.ClusterSize = sb.BlockSize
             /\ sb.ClustersPerGroup = sb.BlocksPerGroup
        ELSE /\ sb.ClusterSize = Pow2(buf.log_cluster_size) * sb.BlockSize
             /\ sb.ClustersPerGroup = buf.clusters_per_group

\* A superblock without bigalloc whose on-disk clusters-per-group differs
\* from its blocks-per-group has been decoded.
C7_Witness ==
    /\ pc = "decoded"
    /\ And(buf.feature_ro_compat, U32(512)) = Zero
    /\ buf.clusters_per_group # buf.blocks_per_group
    /\ sb.ClustersPerGroup = buf.blocks_per_group

\* C8: BlockSize is 1024 << log_block_size for log_block_size in {0,1,2,6};
\* a superblock with any other log_block_size is rejected with an error and
\* yields no SuperBlock.
C8_BlockSize ==
    /\ pc \in {"decoded", "admitted"} =>
        /\ buf.log_block_size \in {0, 1, 2, 6}
        /\ buf.log_block_size = 0 => sb.BlockSize = 1024
        /\ buf.log_block_size = 1 => sb.BlockSize = 2048
        /\ buf.log_block_size = 2 => sb.BlockSize = 4096
        /\ buf.log_block_size = 6 => sb.BlockSize = 65536
    /\ pc # "buf" /\ buf.log_block_size \notin {0, 1, 2, 6} =>
        /\ pc = "failed"
        /\ err # "none"
        /\ sb = NoSb

\* A buffer with the magic and log_block_size 3 has been rejected.
C8_Witness ==
    /\ pc = "failed"
    /\ buf.magic = 61267
    /\ LongEnough(buf.len, buf.rev)
    /\ buf.log_block_size = 3
    /\ err = "InconsistentGeometry"

\* C9: decoding a long enough buffer whose magic is not 0xEF53 fails with
\* BadMagic whatever the other fields hold and produces no SuperBlock; every
\* decode attempt ends in exactly one of a fully populated value or an error.
C9_BadMagic ==
    pc # "buf" =>
        /\ LongEnough(buf.len, buf.rev) /\ buf.magic # 61267 =>
             pc = "failed" /\ err = "BadMagic" /\ sb = NoSb
        /\ \/ err = "none" /\ sb # NoSb /\ Cardinality(DOMAIN sb) = 10
           \/ err # "none" /\ sb = NoSb

\* A buffer without the magic, with a block-size log that is not accepted
\* and an unknown incompatible bit has failed with BadMagic.
C9_Witness ==
    /\ pc = "failed"
    /\ buf.magic = 0
    /\ buf.log_block_size = 5
    /\ ~(buf.feature_incompat \subseteq KnownBitsMask("incompat"))
    /\ err = "BadMagic"

\* C11: the superblock state codec obeys the laws of the feature codecs:
\* SbStateFromInt(s.ToInt()) == s for every SbState s, and
\* SbStateFromInt(n).ToInt() == n & 0x7 for every 16-bit integer n.
C11_StateCodec ==
    /\ pc = "set_done" => rs = s
    /\ pc = "int_done" => rn = And(n, U16(7))

\* The state word 0x8002 (Error and an unnamed high bit) came back as 0x2.
C11_Witness ==
    /\ pc = "int_done"
    /\ n = U16(32768 + 2)
    /\ s.Error /\ ~s.Umounted /\ ~s.OrphanRecovery
    /\ rn = U16(2)

====
